---- MODULE Spec2Model ----
(***************************************************************************)
(* Campus Attend: the attendance buffer calculator (the stored procedure   *)
(* calculate_attendance_buffer), the tables it reads, the client hooks     *)
(* that write those tables, and the client-side readers                    *)
(* (fetchAttendanceSummary, fetchTrendData).                               *)
(*                                                                         *)
(* Number representation.  attendance_threshold and v_threshold are        *)
(* NUMERIC(4,2): an integer number of hundredths.  v_current_pct and       *)
(* v_projected_pct are NUMERIC(5,4): an integer number of ten-thousandths, *)
(* of absolute value below 10.0000 (an assignment of a larger value raises *)
(* "numeric field overflow").                                              *)
(***************************************************************************)
EXTENDS Integers, Sequences, FiniteSets, TLC

\* ------------------------------------------------------------------ bounds
MaxCount == 5
MaxSessions == 2
MaxDay == 2
MaxRequests == 2
MaxStream == 3
MaxSemesters == 2
MaxPages == 2

\* ------------------------------------------------------- program constants
\* NUMERIC(4,2): two decimals, 100 hundredths = 1.00
ThresholdScale == 100
\* NUMERIC(5,4): four decimals, 10000 ten-thousandths = 1.0000
PctScale == 10000
\* NUMERIC(5,4): five digits, the stored value stays below 10.0000
PctLimit == 100000
\* v_threshold := 0.75 when no semester is current
DefaultThreshold == 75
PercentDivisor == 100
TrendDefault == 100

\* ----------------------------------------------------------------- values
Students == {"s1"}
Subjects == {"sub1", "sub2"}
Statuses == {"present", "absent", "on_duty", "medical"}
\* the counts of the documented scenarios A and B, kept in the input space
ScenarioCounts == {10, 18, 20, 40}
Counts == (0..MaxCount) \cup ScenarioCounts
\* attendance thresholds as fractions 0.00 .. 1.00, in hundredths
Thresholds == 0..ThresholdScale

VARIABLES
    args,                \* the counts and threshold handed to the calculator
    ret,                 \* what the calculator returned for args
    today,               \* CURRENT_DATE, a day number
    class_sessions,      \* table class_sessions, row id = position
    attendance_records,  \* table attendance_records, in marked_at order
    on_duty_requests,    \* table on_duty_requests, row id = position
    od_inflight,         \* approvals whose request row is updated, upsert pending
    academic_semesters,  \* table academic_semesters
    event_registrations, \* table event_registrations, row id = position
    pages,               \* the step each open check-in page is at
    lastWrite,           \* effect of the last attendance_records write
    summary              \* the running call of fetchAttendanceSummary

checkinVars == <<event_registrations, pages>>

vars == <<args, ret, today, class_sessions, attendance_records,
          on_duty_requests, od_inflight, academic_semesters, lastWrite, summary,
          checkinVars>>

dbVars == <<today, class_sessions, attendance_records, on_duty_requests,
            od_inflight, academic_semesters, lastWrite>>

\* ---------------------------------------------------------- SQL arithmetic
GREATEST(a, b) == IF a >= b THEN a ELSE b

\* faulty variant: the division truncates instead of rounding up
CEIL_truncates(n, d) == n \div d

\* CEIL(n / d) for n >= 0, d > 0
CEIL(n, d) == (n + d - 1) \div d

\* ROUND(n / d) half away from zero, for n >= 0, d > 0
ROUND(n, d) == (2 * n + d) \div (2 * d)

\* ---------------------------------------------- calculate_attendance_buffer
RaisedError == [status |-> "error"]

\* faulty variant: a subject with no held session is reported at 0 percent
CurrentPct_zeroWhenNoneHeld(p, h) == IF h > 0 THEN ROUND(PctScale * p, h) ELSE 0

\* v_current_pct, before the NUMERIC(5,4) range check
CurrentPct(p, h) == IF h > 0 THEN ROUND(PctScale * p, h) ELSE PctScale

\* the SQL NULL of an INT variable, told apart from every count
NULL == 0 - 1

\* faulty variant: the classes left are not clamped at zero
Remaining_unclamped(h, tp) == tp - h

\* v_remaining; GREATEST ignores a NULL argument
Remaining(h, tp) == IF tp = NULL THEN 0 ELSE GREATEST(tp - h, 0)

\* faulty variant: one more than the whole part instead of the ceiling
RequiredTotal_wholePartPlusOne(tp, th) ==
    IF tp = NULL THEN NULL ELSE ((th * tp) \div ThresholdScale) + 1

\* CEIL(v_threshold * v_total_planned)::INT, NULL for a NULL plan
RequiredTotal(tp, th) == IF tp = NULL THEN NULL ELSE CEIL(th * tp, ThresholdScale)

\* faulty variant: the classes attended are subtracted instead of added
BufferClasses_presentSubtracted(p, h, tp, th) ==
    GREATEST((Remaining(h, tp) - p) - RequiredTotal(tp, th), 0)

\* faulty variant: the difference is returned without the clamp at zero
BufferClasses_unclamped(p, h, tp, th) ==
    (p + Remaining(h, tp)) - RequiredTotal(tp, th)

\* v_buffer; the difference is NULL for a NULL plan and GREATEST(NULL, 0) = 0
BufferClasses(p, h, tp, th) ==
    IF RequiredTotal(tp, th) = NULL THEN 0
    ELSE GREATEST((p + Remaining(h, tp)) - RequiredTotal(tp, th), 0)

\* v_projected_pct, before the NUMERIC(5,4) range check; IF NULL > 0 takes
\* the ELSE branch
ProjectedPct(p, h, tp) ==
    IF tp # NULL /\ tp > 0 THEN ROUND(PctScale * (p + Remaining(h, tp)), tp)
    ELSE CurrentPct(p, h)

\* faulty variant: the comparison with the threshold is strict
IsSafe_strict(p, h, th) == CurrentPct(p, h) > th * (PctScale \div ThresholdScale)

IsSafe(p, h, th) == CurrentPct(p, h) >= th * (PctScale \div ThresholdScale)

\* The function body from the counts on: p = v_present_count, h = v_held_count,
\* tp = v_total_planned, th = v_threshold (hundredths).
ComputeBuffer(p, h, tp, th) ==
    IF CurrentPct(p, h) >= PctLimit \/ ProjectedPct(p, h, tp) >= PctLimit
    THEN RaisedError
    ELSE [status         |-> "ok",
          present_count  |-> p,
          held_count     |-> h,
          total_planned  |-> tp,
          current_pct    |-> CurrentPct(p, h),
          buffer_classes |-> BufferClasses(p, h, tp, th),
          projected_pct  |-> ProjectedPct(p, h, tp),
          is_safe        |-> IsSafe(p, h, th)]

\* ------------------------------------------------------------- calculator
NoRet == [status |-> "none"]

\* fetchAttendanceSummary not called
NoSummary == [pc |-> "idle"]

\* the check-in pages a student has open at once
Pages == 1..MaxPages

\* no check-in page is open and nobody is registered
NoCheckIn ==
    /\ pages = [pg \in Pages |-> "closed"]
    /\ event_registrations = <<>>

InitDb ==
    /\ today = 1
    /\ class_sessions = <<>>
    /\ attendance_records = <<>>
    /\ on_duty_requests = <<>>
    /\ od_inflight = {}
    /\ academic_semesters = <<[attendance_threshold |-> DefaultThreshold,
                               is_current |-> TRUE]>>
    /\ lastWrite = "none"

InitCalc ==
    /\ args \in [p : Counts, h : Counts, tp : Counts, th : Thresholds]
    /\ ret = NoRet
    /\ summary = NoSummary
    /\ NoCheckIn
    /\ InitDb

CallBuffer ==
    /\ ret = NoRet
    /\ ret' = ComputeBuffer(args.p, args.h, args.tp, args.th)
    /\ UNCHANGED <<checkinVars, args, dbVars, summary>>

NextCalc == CallBuffer

SpecCalc == InitCalc /\ [][NextCalc]_vars

\* Calls with a held count large enough for the fourth decimal of the ratio
\* to matter.
LargeCounts == {201}

InitSafe ==
    /\ args \in [p : 0..MaxCount, h : (0..MaxCount) \cup LargeCounts, tp : {0},
                 th : Thresholds]
    /\ ret = NoRet
    /\ summary = NoSummary
    /\ NoCheckIn
    /\ InitDb

SpecSafe == InitSafe /\ [][NextCalc]_vars

\* Two calls for the same subject and threshold, the second with a present
\* count at least as large as the first.
InitPair ==
    /\ args \in {a \in [p : Counts, p2 : Counts, h : Counts, tp : Counts,
                        th : Thresholds] : a.p <= a.p2}
    /\ ret = <<>>
    /\ summary = NoSummary
    /\ NoCheckIn
    /\ InitDb

CallFirst ==
    /\ Len(ret) = 0
    /\ ret' = <<ComputeBuffer(args.p, args.h, args.tp, args.th)>>
    /\ UNCHANGED <<checkinVars, args, dbVars, summary>>

CallSecond ==
    /\ Len(ret) = 1
    /\ ret' = Append(ret, ComputeBuffer(args.p2, args.h, args.tp, args.th))
    /\ UNCHANGED <<checkinVars, args, dbVars, summary>>

NextPair == CallFirst \/ CallSecond

SpecPair == InitPair /\ [][NextPair]_vars

\* ------------------------------------------------------------------ tables
\* subjects.total_classes_planned (INT DEFAULT 0)
subjects == [sub1 |-> 2, sub2 |-> 0]

\* student_subjects: UNIQUE (student_id, subject_id)
student_subjects == {<<"s1", "sub1">>, <<"s1", "sub2">>}

\* the statuses the marking page offers
AttendanceStatus == {"present", "absent", "on_duty"}

SessionIds == 1..Len(class_sessions)

Rows(table) == 1..Len(table)

\* ------------------------------------------------- the stored procedure's reads
\* faulty variant: the is_current filter is dropped
V_threshold_anyRow ==
    IF academic_semesters = <<>> THEN {DefaultThreshold}
    ELSE {academic_semesters[i].attendance_threshold : i \in Rows(academic_semesters)}

\* SELECT attendance_threshold ... WHERE is_current = true LIMIT 1, then the
\* 0.75 fallback: the values v_threshold can take
V_threshold ==
    LET current == {i \in Rows(academic_semesters) : academic_semesters[i].is_current}
    IN  IF current = {} THEN {DefaultThreshold}
        ELSE {academic_semesters[i].attendance_threshold : i \in current}

\* SELECT COUNT(*) FROM class_sessions WHERE subject_id = .. AND
\* is_cancelled = false AND scheduled_date <= CURRENT_DATE
\* faulty variant: the date filter is dropped
HeldSessions_futureCounts(subject) ==
    {c \in SessionIds :
        /\ class_sessions[c].subject_id = subject
        /\ class_sessions[c].is_cancelled = FALSE}

HeldSessions(subject) ==
    {c \in SessionIds :
        /\ class_sessions[c].subject_id = subject
        /\ class_sessions[c].is_cancelled = FALSE
        /\ class_sessions[c].scheduled_date <= today}

HeldCount(subject) == Cardinality(HeldSessions(subject))

\* faulty variant: a medical record counts as attended
PresentRows_medicalCounts(student, subject) ==
    {i \in Rows(attendance_records) :
        /\ attendance_records[i].student_id = student
        /\ class_sessions[attendance_records[i].class_session_id].subject_id = subject
        /\ attendance_records[i].status \in {"present", "on_duty", "medical"}}

\* SELECT COUNT(*) FROM attendance_records ar JOIN class_sessions cs ...
\* WHERE ar.student_id = .. AND cs.subject_id = .. AND status IN (present, on_duty)
PresentRows(student, subject) ==
    {i \in Rows(attendance_records) :
        /\ attendance_records[i].student_id = student
        /\ class_sessions[attendance_records[i].class_session_id].subject_id = subject
        /\ attendance_records[i].status \in {"present", "on_duty"}}

PresentCount(student, subject) == Cardinality(PresentRows(student, subject))

\* SELECT COALESCE(total_classes_planned, 0) INTO v_total_planned FROM
\* subjects WHERE id = ..: with no row the variable stays NULL
V_total_planned(subject) ==
    IF subject \in DOMAIN subjects THEN subjects[subject] ELSE NULL

\* the results a call calculate_attendance_buffer(student, subject) can return
calculate_attendance_buffer(student, subject) ==
    {ComputeBuffer(PresentCount(student, subject), HeldCount(subject),
                   V_total_planned(subject), th) : th \in V_threshold}

\* Calls of the function over table contents: up to MaxSemesters rows of
\* academic_semesters, any number of them current, and a subject id that may
\* match no subject.
CallSubjects == Subjects \cup {"sub9"}

SemesterThresholds == {0, 50, DefaultThreshold}

RECURSIVE SemesterTables(_)
\* the contents of academic_semesters with at most n rows
SemesterTables(n) ==
    IF n = 0 THEN {<<>>}
    ELSE LET shorter == SemesterTables(n - 1)
         IN  shorter \cup
             {Append(t, row) :
                 t \in shorter,
                 row \in [attendance_threshold : SemesterThresholds,
                          is_current : BOOLEAN]}

InitRpc ==
    /\ args \in [student : Students, subject : CallSubjects]
    /\ ret = <<>>
    /\ summary = NoSummary
    /\ NoCheckIn
    /\ today = 1
    /\ class_sessions =
         <<[subject_id |-> "sub1", scheduled_date |-> 1, is_cancelled |-> FALSE],
           [subject_id |-> "sub2", scheduled_date |-> 1, is_cancelled |-> FALSE]>>
    /\ attendance_records \in
         {SelectSeq(<<[student_id |-> "s1", class_session_id |-> 1, status |-> m[1]],
                      [student_id |-> "s1", class_session_id |-> 2, status |-> m[2]]>>,
                    LAMBDA r : r.status # "unmarked") :
             m \in [1..2 -> Statuses \cup {"unmarked"}]}
    /\ on_duty_requests = <<>>
    /\ od_inflight = {}
    /\ academic_semesters \in SemesterTables(MaxSemesters)
    /\ lastWrite = "none"

\* one call; the function is STABLE and only reads
CallRpc ==
    /\ Len(ret) < 2
    /\ \E r \in calculate_attendance_buffer(args.student, args.subject) :
           ret' = Append(ret, r)
    /\ UNCHANGED <<checkinVars, args, dbVars, summary>>

NextRpc == CallRpc

SpecRpc == InitRpc /\ [][NextRpc]_vars

\* ------------------------------------------------------------ fetchTrendData
\* Dates are [year, doy]: doy is the day of the year, 1 for 1 January.
\* new Date("YYYY-MM-DD") is midnight UTC, while getFullYear() and
\* new Date(year, 0, 1) are local time, so the key depends on the browser's
\* time zone: on UTC, east of it, or west of it.
TimeZones == {"utc", "east", "west"}

\* weekKey: getFullYear() and Math.ceil((days since 1 January + 1) / 7)
WeekKey(date, tz) ==
    IF tz = "east"
    THEN [year |-> date.year, week |-> (date.doy \div 7) + 1]
    ELSE IF tz = "west" /\ date.doy = 1
    THEN [year |-> date.year - 1, week |-> 53]
    ELSE [year |-> date.year, week |-> CEIL(date.doy, 7)]

\* faulty variant: the rounded value is divided by 10000 instead of 100
TrendPct_fraction(totalPresent, totalHeld) ==
    IF totalHeld > 0 THEN ROUND(PctScale * totalPresent, totalHeld) ELSE PctScale

\* pct: Math.round((totalPresent / totalHeld) * 10000) / 100, else 100. Every
\* number a call returns is kept in ten-thousandths, so that 1.0 is 10000 and
\* the percentage 66.67 is 666700.
TrendPct(totalPresent, totalHeld) ==
    IF totalHeld > 0
    THEN (ROUND(PctScale * totalPresent, totalHeld) * PctScale) \div PercentDivisor
    ELSE TrendDefault * PctScale

\* the year the day numbers of class_sessions.scheduled_date lie in
SessionYear == 2025

\* the rows of the student ordered by marked_at, each with its effective date:
\* the scheduled_date of the joined session
TrendRows(student) ==
    LET mine == SelectSeq(attendance_records, LAMBDA r : r.student_id = student)
    IN  [k \in 1..Len(mine) |->
            [status |-> mine[k].status,
             date   |-> [year |-> SessionYear,
                         doy  |-> class_sessions[mine[k].class_session_id].scheduled_date]]]

\* faulty variant: the label is the calendar week number
NextWeekNum_calendarWeek(weekKey, wk) == weekKey.week

\* weekNum after a record: one more when the week key changes
NextWeekNum(weekKey, wk) ==
    IF weekKey # wk.lastWeekKey THEN wk.weekNum + 1 ELSE wk.weekNum

\* trends.find(..) and then either the overwrite of pct and projected or the push
UpsertCheckpoint(trends, weekNum, pct) ==
    LET existing == {i \in 1..Len(trends) : trends[i].week = weekNum}
        point    == [week |-> weekNum, pct |-> pct, projected |-> pct]
    IN  IF existing # {}
        THEN [i \in 1..Len(trends) |->
                 IF i = CHOOSE j \in existing : \A l \in existing : j <= l
                 THEN point ELSE trends[i]]
        ELSE Append(trends, point)

RECURSIVE TrendFold(_, _, _, _, _, _, _)
\* the for loop: data from position k on, with the loop's local variables
TrendFold(data, tz, k, trends, totalHeld, totalPresent, wk) ==
    IF k > Len(data) THEN trends
    ELSE
        LET record   == data[k]
            weekKey  == WeekKey(record.date, tz)
            held     == totalHeld + 1
            present  == IF record.status \in {"present", "on_duty"}
                        THEN totalPresent + 1 ELSE totalPresent
            weekNum  == NextWeekNum(weekKey, wk)
            pct      == TrendPct(present, held)
            next     == UpsertCheckpoint(trends, weekNum, pct)
        IN  TrendFold(data, tz, k + 1, next, held, present,
                      [weekNum |-> weekNum, lastWeekKey |-> weekKey])

\* lastWeekKey = '' before the first record
NoWeekKey == [year |-> 0, week |-> 0]

\* the fold over the fetched rows
ComputeTrend(data, tz) ==
    TrendFold(data, tz, 1, <<>>, 0, 0, [weekNum |-> 0, lastWeekKey |-> NoWeekKey])

fetchTrendData(student, tz) == ComputeTrend(TrendRows(student), tz)

\* the effective dates of the streams: 1, 6, 8, 13 and 28 January 2025
TrendDates == {[year |-> SessionYear, doy |-> d] : d \in {1, 6, 8, 13, 28}}

RECURSIVE SeqsUpTo(_, _)
\* the sequences over set of length at most n
SeqsUpTo(set, n) ==
    IF n = 0 THEN {<<>>}
    ELSE LET shorter == SeqsUpTo(set, n - 1)
         IN  shorter \cup {Append(q, x) : q \in shorter, x \in set}

InitTrend ==
    /\ args \in [stream : SeqsUpTo([status : Statuses, date : TrendDates], MaxStream),
                 tz : TimeZones]
    /\ ret = NoRet
    /\ summary = NoSummary
    /\ NoCheckIn
    /\ InitDb

CallTrend ==
    /\ ret = NoRet
    /\ ret' = [status |-> "ok", trends |-> ComputeTrend(args.stream, args.tz)]
    /\ UNCHANGED <<checkinVars, args, dbVars, summary>>

NextTrend == CallTrend

SpecTrend == InitTrend /\ [][NextTrend]_vars

\* ------------------------------------------------------------- write paths
\* faulty variant: a plain INSERT, no conflict target
UpsertRow_plainInsert(table, student, session, status) ==
    Append(table, [student_id |-> student,
                   class_session_id |-> session,
                   status |-> status])

\* INSERT ... ON CONFLICT (student_id, class_session_id) DO UPDATE, one row
UpsertRow(table, student, session, status) ==
    LET hit == {i \in Rows(table) :
                   table[i].student_id = student /\ table[i].class_session_id = session}
    IN  IF hit # {}
        THEN [i \in Rows(table) |->
                 IF i \in hit THEN [table[i] EXCEPT !.status = status] ELSE table[i]]
        ELSE Append(table, [student_id |-> student,
                            class_session_id |-> session,
                            status |-> status])

HasRow(table, student, session) ==
    \E i \in Rows(table) :
        table[i].student_id = student /\ table[i].class_session_id = session

RECURSIVE UpsertRows(_, _, _, _)
\* the bulk upsert: one statement over the rows of the students in todo
UpsertRows(table, todo, session, statusOf) ==
    IF todo = {} THEN table
    ELSE LET st == CHOOSE x \in todo : TRUE
         IN  UpsertRows(UpsertRow(table, st, session, statusOf[st]),
                        todo \ {st}, session, statusOf)

\* useTimetable.addSession
addSession(subject, date) ==
    /\ Len(class_sessions) < MaxSessions
    /\ class_sessions' = Append(class_sessions,
           [subject_id |-> subject, scheduled_date |-> date, is_cancelled |-> FALSE])
    /\ UNCHANGED <<checkinVars, args, ret, today, attendance_records, on_duty_requests,
                   od_inflight, academic_semesters, lastWrite, summary>>

\* useTimetable.deleteSession
deleteSession(sessionId) ==
    /\ sessionId \in SessionIds
    /\ class_sessions' = [class_sessions EXCEPT ![sessionId].is_cancelled = TRUE]
    /\ UNCHANGED <<checkinVars, args, ret, today, attendance_records, on_duty_requests,
                   od_inflight, academic_semesters, lastWrite, summary>>

\* the sessions the marking page lists for a subject
FacultySessions(subject) ==
    {c \in SessionIds :
        /\ class_sessions[c].subject_id = subject
        /\ class_sessions[c].scheduled_date = today
        /\ class_sessions[c].is_cancelled = FALSE}

EnrolledStudents(subject) == {st \in Students : <<st, subject>> \in student_subjects}

\* FacultyAttendancePage.handleSubmit -> useBulkMarkAttendance
BulkMarkAttendance(subject, sessionId, statusOf) ==
    /\ sessionId \in FacultySessions(subject)
    /\ EnrolledStudents(subject) # {}
    /\ attendance_records' =
           UpsertRows(attendance_records, EnrolledStudents(subject), sessionId, statusOf)
    /\ lastWrite' = IF \E st \in EnrolledStudents(subject) :
                          HasRow(attendance_records, st, sessionId)
                    THEN "update" ELSE "insert"
    /\ UNCHANGED <<checkinVars, args, ret, today, class_sessions, on_duty_requests,
                   od_inflight, academic_semesters, summary>>

\* check-in: one pending on-duty request for a class session on the event date
CreateODRequest(student, sessionId) ==
    /\ Len(on_duty_requests) < MaxRequests
    /\ sessionId \in SessionIds
    /\ <<student, class_sessions[sessionId].subject_id>> \in student_subjects
    /\ class_sessions[sessionId].scheduled_date = today
    /\ class_sessions[sessionId].is_cancelled = FALSE
    /\ on_duty_requests' = Append(on_duty_requests,
           [student_id |-> student, class_session_id |-> sessionId, status |-> "pending"])
    /\ UNCHANGED <<checkinVars, args, ret, today, class_sessions, attendance_records,
                   od_inflight, academic_semesters, lastWrite, summary>>

\* useResolveODRequest, step 1: update the request row
ResolveODRequest(requestId, action) ==
    /\ requestId \in Rows(on_duty_requests)
    /\ on_duty_requests[requestId].status = "pending"
    /\ on_duty_requests' = [on_duty_requests EXCEPT ![requestId].status = action]
    /\ od_inflight' = IF action = "approved"
                      THEN od_inflight \cup {requestId} ELSE od_inflight
    /\ UNCHANGED <<checkinVars, args, ret, today, class_sessions, attendance_records,
                   academic_semesters, lastWrite, summary>>

\* useResolveODRequest, step 2: upsert the attendance row as on_duty
ResolveODUpsert(requestId) ==
    /\ requestId \in od_inflight
    /\ LET req == on_duty_requests[requestId]
       IN  /\ attendance_records' = UpsertRow(attendance_records, req.student_id,
                                              req.class_session_id, "on_duty")
           /\ lastWrite' = IF HasRow(attendance_records, req.student_id,
                                     req.class_session_id)
                           THEN "update" ELSE "insert"
    /\ od_inflight' = od_inflight \ {requestId}
    /\ UNCHANGED <<checkinVars, args, ret, today, class_sessions, on_duty_requests,
                   academic_semesters, summary>>

\* useResolveODRequest, step 2 answered with an error: attErr is thrown
ResolveODUpsertFails(requestId) ==
    /\ requestId \in od_inflight
    /\ od_inflight' = od_inflight \ {requestId}
    /\ UNCHANGED <<checkinVars, args, ret, today, class_sessions, attendance_records,
                   on_duty_requests, academic_semesters, lastWrite, summary>>

\* CURRENT_DATE moves on
NextDay ==
    /\ today < MaxDay
    /\ today' = today + 1
    /\ UNCHANGED <<checkinVars, args, ret, class_sessions, attendance_records, on_duty_requests,
                   od_inflight, academic_semesters, lastWrite, summary>>

Init ==
    /\ args = [p |-> 0, h |-> 0, tp |-> 0, th |-> DefaultThreshold]
    /\ ret = NoRet
    /\ summary = NoSummary
    /\ NoCheckIn
    /\ InitDb

Next ==
    \/ \E subject \in Subjects, date \in 1..MaxDay : addSession(subject, date)
    \/ \E sessionId \in 1..MaxSessions : deleteSession(sessionId)
    \/ \E subject \in Subjects, sessionId \in 1..MaxSessions,
          statusOf \in [Students -> AttendanceStatus] :
              BulkMarkAttendance(subject, sessionId, statusOf)
    \/ \E student \in Students, sessionId \in 1..MaxSessions :
          CreateODRequest(student, sessionId)
    \/ \E requestId \in 1..MaxRequests, action \in {"approved", "rejected"} :
          ResolveODRequest(requestId, action)
    \/ \E requestId \in 1..MaxRequests : ResolveODUpsert(requestId)
    \/ \E requestId \in 1..MaxRequests : ResolveODUpsertFails(requestId)
    \/ NextDay

Spec == Init /\ [][Next]_vars

\* The write paths of attendance_records alone, over a timetable of two
\* sessions held today: faculty bulk-marks and on-duty approvals, interleaved.
InitWrites ==
    /\ args = [p |-> 0, h |-> 0, tp |-> 0, th |-> DefaultThreshold]
    /\ ret = NoRet
    /\ summary = NoSummary
    /\ NoCheckIn
    /\ today = 1
    /\ class_sessions =
         <<[subject_id |-> "sub1", scheduled_date |-> 1, is_cancelled |-> FALSE],
           [subject_id |-> "sub2", scheduled_date |-> 1, is_cancelled |-> FALSE]>>
    /\ attendance_records = <<>>
    /\ on_duty_requests = <<>>
    /\ od_inflight = {}
    /\ academic_semesters = <<[attendance_threshold |-> DefaultThreshold,
                               is_current |-> TRUE]>>
    /\ lastWrite = "none"

NextWrites ==
    \/ \E subject \in Subjects, sessionId \in 1..2,
          statusOf \in [Students -> AttendanceStatus] :
              BulkMarkAttendance(subject, sessionId, statusOf)
    \/ \E student \in Students, sessionId \in 1..2 :
          CreateODRequest(student, sessionId)
    \/ \E requestId \in 1..MaxRequests, action \in {"approved", "rejected"} :
          ResolveODRequest(requestId, action)
    \/ \E requestId \in 1..MaxRequests : ResolveODUpsert(requestId)
    \/ \E requestId \in 1..MaxRequests : ResolveODUpsertFails(requestId)

SpecWrites == InitWrites /\ [][NextWrites]_vars

\* ------------------------------------------------------- event check-in page
\* The student's check-in pages for one event held today; args.overlapping is
\* the set of sessions whose time overlaps the event's. The student may have
\* registered beforehand, with no check_in_time yet.
EventId == "e1"

CheckInStudent == "s1"

\* the registration rows of the student for the event
RegistrationIds ==
    {i \in Rows(event_registrations) :
        /\ event_registrations[i].event_id = EventId
        /\ event_registrations[i].student_id = CheckInStudent}

\* validate: the page shows an error when the student has a check_in_time,
\* else it goes on to the location step
ValidateQr(pg) ==
    /\ pages[pg] = "closed"
    /\ pages' = [pages EXCEPT ![pg] =
           IF \E i \in RegistrationIds : event_registrations[i].check_in_time
           THEN "error" ELSE "geo"]
    /\ UNCHANGED <<args, ret, dbVars, summary, event_registrations>>

\* handleCheckIn, first write: upsert on (event_id, student_id)
handleCheckIn(pg) ==
    /\ pages[pg] = "geo"
    /\ event_registrations' =
           IF RegistrationIds # {}
           THEN [i \in Rows(event_registrations) |->
                    IF i \in RegistrationIds
                    THEN [event_registrations[i] EXCEPT !.check_in_time = TRUE]
                    ELSE event_registrations[i]]
           ELSE Append(event_registrations,
                       [event_id |-> EventId, student_id |-> CheckInStudent,
                        check_in_time |-> TRUE])
    /\ pages' = [pages EXCEPT ![pg] = "registered"]
    /\ UNCHANGED <<args, ret, dbVars, summary>>

\* the sessions of the student's subjects on the event date, not cancelled,
\* whose time overlaps the event's
OverlappingSessions ==
    {c \in SessionIds :
        /\ <<CheckInStudent, class_sessions[c].subject_id>> \in student_subjects
        /\ class_sessions[c].scheduled_date = today
        /\ class_sessions[c].is_cancelled = FALSE
        /\ c \in args.overlapping}

\* handleCheckIn, the on-duty requests: one insert per overlapping session
AutoODRequests(pg) ==
    /\ pages[pg] = "registered"
    /\ LET regRow == CHOOSE i \in RegistrationIds : TRUE
           entry(c) == [student_id            |-> CheckInStudent,
                        event_registration_id |-> regRow,
                        class_session_id      |-> c,
                        status                |-> "pending"]
           inserts == SelectSeq([c \in SessionIds |-> entry(c)],
                                LAMBDA r : r.class_session_id \in OverlappingSessions)
       IN  on_duty_requests' = on_duty_requests \o inserts
    /\ pages' = [pages EXCEPT ![pg] = "done"]
    /\ UNCHANGED <<args, ret, today, class_sessions, attendance_records, od_inflight,
                   academic_semesters, lastWrite, summary, event_registrations>>

InitCheckIn ==
    /\ args \in [overlapping : SUBSET (1..2)]
    /\ ret = NoRet
    /\ summary = NoSummary
    /\ pages = [pg \in Pages |-> "closed"]
    /\ event_registrations \in
         {<<>>, <<[event_id |-> EventId, student_id |-> CheckInStudent,
                   check_in_time |-> FALSE]>>}
    /\ today = 1
    /\ class_sessions =
         <<[subject_id |-> "sub1", scheduled_date |-> 1, is_cancelled |-> FALSE],
           [subject_id |-> "sub2", scheduled_date |-> 1, is_cancelled |-> FALSE]>>
    /\ attendance_records = <<>>
    /\ on_duty_requests = <<>>
    /\ od_inflight = {}
    /\ academic_semesters = <<[attendance_threshold |-> DefaultThreshold,
                               is_current |-> TRUE]>>
    /\ lastWrite = "none"

NextCheckIn ==
    \/ \E pg \in Pages : ValidateQr(pg)
    \/ \E pg \in Pages : handleCheckIn(pg)
    \/ \E pg \in Pages : AutoODRequests(pg)
    \/ \E sessionId \in 1..2 : deleteSession(sessionId)

SpecCheckIn == InitCheckIn /\ [][NextCheckIn]_vars

\* The timetable alone: sessions are added and cancelled and the days pass.
NextTimetable ==
    \/ \E subject \in Subjects, date \in 1..MaxDay : addSession(subject, date)
    \/ \E sessionId \in 1..MaxSessions : deleteSession(sessionId)
    \/ NextDay

SpecTimetable == Init /\ [][NextTimetable]_vars

\* ---------------------------------------------------- fetchAttendanceSummary
\* the enrolled subjects of the student, in the order the select returns them
Enrollments(student) ==
    SelectSeq(<<"sub1", "sub2">>, LAMBDA sub : <<student, sub>> \in student_subjects)

\* count of the student's on_duty rows among the sessions in ids
OnDutyCount(student, ids) ==
    Cardinality({i \in Rows(attendance_records) :
        /\ attendance_records[i].student_id = student
        /\ attendance_records[i].status = "on_duty"
        /\ attendance_records[i].class_session_id \in ids})

\* after an iteration of the for loop: the next subject, or return results
SummaryContinue(st, results) ==
    IF Len(st.todo) > 1
    THEN [st EXCEPT !.pc = "rpc", !.todo = Tail(st.todo), !.results = results]
    ELSE [st EXCEPT !.pc = "returned", !.todo = <<>>, !.results = results]

\* step 1: select the enrollments
SummaryEnrollments(student, ok) ==
    /\ summary.pc = "idle"
    /\ summary' =
         IF ~ok THEN [pc |-> "threw"]
         ELSE IF Enrollments(student) = <<>>
         THEN [pc |-> "returned", student |-> student, todo |-> <<>>,
               results |-> <<>>, rpcFailed |-> {}, defaulted |-> {}]
         ELSE [pc |-> "rpc", student |-> student, todo |-> Enrollments(student),
               results |-> <<>>, rpcFailed |-> {}, defaulted |-> {}]
    /\ UNCHANGED <<checkinVars, args, ret, dbVars>>

\* step 2: supabase.rpc('calculate_attendance_buffer') for the next subject
SummaryRpc(ok) ==
    /\ summary.pc = "rpc"
    /\ \/ /\ ~ok
          /\ summary' = SummaryContinue(
                 [summary EXCEPT !.rpcFailed = @ \cup {Head(summary.todo)}],
                 summary.results)
       \/ /\ ok
          /\ \E data \in calculate_attendance_buffer(summary.student, Head(summary.todo)) :
                 /\ data.status = "ok"
                 /\ summary' = [pc |-> "count", student |-> summary.student,
                                todo |-> summary.todo, data |-> data,
                                results |-> summary.results,
                                rpcFailed |-> summary.rpcFailed,
                                defaulted |-> summary.defaulted]
    /\ UNCHANGED <<checkinVars, args, ret, dbVars>>

\* the on-duty count: the ids of the subject's sessions, then the head count
SummaryCount(sessionsOk, countOk) ==
    /\ summary.pc = "count"
    /\ LET subj  == Head(summary.todo)
           ids   == IF sessionsOk
                    THEN {c \in SessionIds : class_sessions[c].subject_id = subj}
                    ELSE {}
           count == IF countOk THEN OnDutyCount(summary.student, ids) ELSE 0
           entry == [subject_id |-> subj, buffer |-> summary.data,
                     on_duty_count |-> count]
           st    == [pc |-> "rpc", student |-> summary.student, todo |-> summary.todo,
                     results |-> summary.results, rpcFailed |-> summary.rpcFailed,
                     defaulted |-> IF sessionsOk /\ countOk THEN summary.defaulted
                                   ELSE summary.defaulted \cup {subj}]
       IN  summary' = SummaryContinue(st, Append(summary.results, entry))
    /\ UNCHANGED <<checkinVars, args, ret, dbVars>>

\* the table contents a summary is computed over
SnapshotMarks == [1..2 -> AttendanceStatus \cup {"unmarked"}]

SnapshotRecords(marks) ==
    LET row(c) == [student_id |-> "s1", class_session_id |-> c, status |-> marks[c]]
    IN  SelectSeq(<<row(1), row(2)>>, LAMBDA r : r.status # "unmarked")

InitSummary ==
    /\ args = [p |-> 0, h |-> 0, tp |-> 0, th |-> DefaultThreshold]
    /\ ret = NoRet
    /\ summary = NoSummary
    /\ NoCheckIn
    /\ today = 1
    /\ class_sessions =
         <<[subject_id |-> "sub1", scheduled_date |-> 1, is_cancelled |-> FALSE],
           [subject_id |-> "sub2", scheduled_date |-> 1, is_cancelled |-> FALSE]>>
    /\ \E marks \in SnapshotMarks : attendance_records = SnapshotRecords(marks)
    /\ on_duty_requests = <<>>
    /\ od_inflight = {}
    /\ academic_semesters = <<[attendance_threshold |-> DefaultThreshold,
                               is_current |-> TRUE]>>
    /\ lastWrite = "none"

NextSummary ==
    \/ \E student \in Students, ok \in BOOLEAN : SummaryEnrollments(student, ok)
    \/ \E ok \in BOOLEAN : SummaryRpc(ok)
    \/ \E sessionsOk \in BOOLEAN, countOk \in BOOLEAN : SummaryCount(sessionsOk, countOk)

SpecSummary == InitSummary /\ [][NextSummary]_vars

\* ================================================================= claims
\* ---- claims about the calculator, checked under SpecCalc

Returned == ret.status = "ok"

\* a percentage as the fraction it stands for: 50.00 percent is 0.5
PercentAsFraction(pct) == pct \div 100

\* the least n with n >= th * tp / 100, found by search
LeastTotalAtThreshold(tp, th) ==
    CHOOSE n \in 0..tp :
        /\ ThresholdScale * n >= th * tp
        /\ \A m \in 0..tp : ThresholdScale * m >= th * tp => n <= m

ExpectedBuffer(p, h, tp, th) ==
    LET remaining == IF tp - h > 0 THEN tp - h ELSE 0
        diff      == (p + remaining) - LeastTotalAtThreshold(tp, th)
    IN  IF diff > 0 THEN diff ELSE 0

\* C1: every call that returns reports buffer_classes =
\* max((presentCount + max(totalPlanned - heldCount, 0)) - ceil(threshold *
\* totalPlanned), 0), and scenario A (0.75, 40, 20, 18) reports 8.
C1_BufferFormula ==
    Returned =>
        /\ ret.buffer_classes = ExpectedBuffer(args.p, args.h, args.tp, args.th)
        /\ (args = [p |-> 18, h |-> 20, tp |-> 40, th |-> 75] => ret.buffer_classes = 8)

C1_Witness ==
    /\ args = [p |-> 18, h |-> 20, tp |-> 40, th |-> 75]
    /\ Returned
    /\ ret.buffer_classes = 8

\* the student ends at or above the threshold after missing m of the remaining
\* classes and attending the others
EndsAtOrAbove(p, remaining, tp, th, m) ==
    ThresholdScale * (p + (remaining - m)) >= th * tp

\* C2: whenever totalPlanned > 0 and presentCount + remaining >= requiredTotal
\* (and presentCount <= heldCount, the data integrity precondition),
\* buffer_classes of the remaining classes can be missed with the term ending at
\* or above the threshold, and one more missed class ends below it.
C2_BufferIsExactSafeToMiss ==
    LET remaining == IF args.tp - args.h > 0 THEN args.tp - args.h ELSE 0
    IN  (/\ Returned
         /\ args.tp > 0
         /\ args.p <= args.h
         /\ args.p + remaining >= LeastTotalAtThreshold(args.tp, args.th))
        => /\ ret.buffer_classes \in 0..remaining
           /\ EndsAtOrAbove(args.p, remaining, args.tp, args.th, ret.buffer_classes)
           /\ (ret.buffer_classes + 1 <= remaining =>
                  ~EndsAtOrAbove(args.p, remaining, args.tp, args.th,
                                 ret.buffer_classes + 1))

\* C8: with held_count = 0 every call that returns reports current_pct = 1.0
\* and is_safe = true, for every threshold, present_count and total_planned.
C8_ZeroHeldIsSafe ==
    (Returned /\ args.h = 0) => (ret.current_pct = PctScale /\ ret.is_safe = TRUE)

C8_Witness ==
    /\ Returned
    /\ args.h = 0
    /\ args.th = ThresholdScale
    /\ args.p > 0
    /\ args.tp > 0
    /\ ret.current_pct = PctScale
    /\ ret.is_safe = TRUE

\* C9: when held_count > 0 and present_count / held_count is exactly the
\* threshold, is_safe = true.
C9_ThresholdInclusive ==
    (Returned /\ args.h > 0 /\ ThresholdScale * args.p = args.th * args.h)
        => ret.is_safe = TRUE

C9_Witness ==
    /\ Returned
    /\ args = [p |-> 3, h |-> 4, tp |-> 4, th |-> 75]
    /\ ret.current_pct = 7500
    /\ ret.is_safe = TRUE

\* C10: buffer_classes is never negative; a student who cannot reach the
\* required total is shown 0; scenario B (0.75, 40, 20, 10) reports 0 and
\* is_safe = false.
C10_BufferNonNegative ==
    Returned =>
        /\ ret.buffer_classes >= 0
        /\ (args.p + Remaining(args.h, args.tp)
                < LeastTotalAtThreshold(args.tp, args.th) => ret.buffer_classes = 0)
        /\ (args = [p |-> 10, h |-> 20, tp |-> 40, th |-> 75]
                => (ret.buffer_classes = 0 /\ ret.is_safe = FALSE))

C10_Witness ==
    /\ Returned
    /\ args.p + Remaining(args.h, args.tp) < LeastTotalAtThreshold(args.tp, args.th)
    /\ ret.buffer_classes = 0
    /\ ret.is_safe = FALSE

\* ---- claims about the tables, checked under Spec

IsCancelled(sessionId) == class_sessions[sessionId].is_cancelled = TRUE

\* C3: a present or on_duty record of a cancelled session is counted neither
\* in present_count nor in held_count.
C3_CancelledExcluded ==
    \A student \in Students, subject \in Subjects :
        /\ \A i \in PresentRows(student, subject) :
               ~IsCancelled(attendance_records[i].class_session_id)
        /\ \A c \in HeldSessions(subject) : ~IsCancelled(c)

\* C4: present_count never exceeds held_count for any student and subject.
C4_PresentAtMostHeld ==
    \A student \in Students, subject \in Subjects :
        PresentCount(student, subject) <= HeldCount(subject)

OneRowPerPair(table) ==
    \A i, j \in Rows(table) :
        (/\ table[i].student_id = table[j].student_id
         /\ table[i].class_session_id = table[j].class_session_id) => i = j

\* C5: every step leaves at most one attendance_records row per (student,
\* session); a write for an existing pair changes that row in place and adds no
\* row; no step removes a row or changes the pair a row belongs to.
C5_UpsertKeepsOneRowPerPair ==
    [][ /\ OneRowPerPair(attendance_records')
        /\ Len(attendance_records') >= Len(attendance_records)
        /\ \A i \in Rows(attendance_records) :
               /\ attendance_records'[i].student_id = attendance_records[i].student_id
               /\ attendance_records'[i].class_session_id =
                      attendance_records[i].class_session_id
        /\ (attendance_records' # attendance_records /\ lastWrite' = "update")
               => Len(attendance_records') = Len(attendance_records)
      ]_vars

C5_Witness ==
    /\ lastWrite = "update"
    /\ od_inflight = {}
    /\ \E r \in Rows(on_duty_requests), i \in Rows(attendance_records) :
          /\ on_duty_requests[r].status = "approved"
          /\ attendance_records[i].student_id = on_duty_requests[r].student_id
          /\ attendance_records[i].class_session_id = on_duty_requests[r].class_session_id
          /\ attendance_records[i].status = "on_duty"

RECURSIVE SumOver(_, _)
SumOver(f, set) ==
    IF set = {} THEN 0
    ELSE LET x == CHOOSE y \in set : TRUE IN f[x] + SumOver(f, set \ {x})

EnrolledSubjects(student) == {sub \in Subjects : <<student, sub>> \in student_subjects}

\* C6: the pct of the last trend checkpoint equals present_count summed over
\* the student's subjects divided by held_count summed over them, both rounded
\* to four decimals of the fraction.
C6_TrendMatchesBuffer ==
    \A student \in Students, tz \in TimeZones :
        LET trends  == fetchTrendData(student, tz)
            present == SumOver([sub \in Subjects |-> PresentCount(student, sub)],
                               EnrolledSubjects(student))
            held    == SumOver([sub \in Subjects |-> HeldCount(sub)],
                               EnrolledSubjects(student))
        IN  (trends # <<>> /\ held > 0)
                => PercentAsFraction(trends[Len(trends)].pct)
                       = (2 * PctScale * present + held) \div (2 * held)

\* C7: fetchAttendanceSummary returns a result only when every read it made
\* succeeded: no subject whose calculate_attendance_buffer call failed is
\* missing from a returned result, and no value of a returned result stands in
\* for data that could not be read.
C7_FailurePropagates ==
    summary.pc = "returned" =>
        /\ summary.rpcFailed = {}
        /\ summary.defaulted = {}

\* ---- claims about two calls, checked under SpecPair

BothReturned == Len(ret) = 2 /\ ret[1].status = "ok" /\ ret[2].status = "ok"

\* C11: with held_count, total_planned and threshold fixed and p1 <= p2, the
\* buffer returned for p1 is at most the buffer returned for p2.
C11_BufferMonotone ==
    BothReturned => ret[1].buffer_classes <= ret[2].buffer_classes

C11_Witness ==
    /\ BothReturned
    /\ args.p < args.p2
    /\ ret[1].buffer_classes > 0
    /\ ret[1].buffer_classes < ret[2].buffer_classes

\* ---- claims about the projection, checked under SpecCalc

\* the classes left in the plan, never below zero
ClassesLeft(h, tp) == IF tp > h THEN tp - h ELSE 0

\* C12: every call that returns reports projected_pct = (present_count +
\* max(total_planned - held_count, 0)) / total_planned to the nearest
\* ten-thousandth when total_planned > 0, and projected_pct = current_pct when
\* total_planned = 0; the classes left count as zero when held_count exceeds
\* total_planned; with no class planned, held or attended projected_pct is 1.
C12_ProjectedPct ==
    Returned =>
        LET exact == PctScale * (args.p + ClassesLeft(args.h, args.tp))
            got   == args.tp * ret.projected_pct
        IN  /\ args.tp > 0 => /\ 2 * (got - exact) <= args.tp
                              /\ 2 * (exact - got) <= args.tp
            /\ args.tp = 0 => ret.projected_pct = ret.current_pct
            /\ (args.p = 0 /\ args.h = 0 /\ args.tp = 0)
                   => ret.projected_pct = PctScale

C12_Witness ==
    /\ Returned
    /\ args.tp > 0
    /\ args.h > args.tp
    /\ args.p > 0
    /\ ret.projected_pct < PctScale

\* ---- claims about the trend fold, checked under SpecTrend

TrendReturned == ret # NoRet /\ ret.status = "ok" /\ "trends" \in DOMAIN ret

DateBefore(d, e) == d.year < e.year \/ (d.year = e.year /\ d.doy < e.doy)

\* no record of the stream is dated before an earlier one
Ascending(stream) ==
    \A i, j \in 1..Len(stream) : i < j => ~DateBefore(stream[j].date, stream[i].date)

\* C13: for a stream in ascending date order the checkpoints returned carry
\* the labels Week 1, Week 2, ... in this order: strictly increasing, none
\* twice and none left out, also when the records skip calendar weeks.
C13_WeekLabelsSequential ==
    (TrendReturned /\ Ascending(args.stream)) =>
        \A i \in 1..Len(ret.trends) : ret.trends[i].week = i

C13_Witness ==
    /\ TrendReturned
    /\ Ascending(args.stream)
    /\ Len(args.stream) = 3
    /\ args.stream[1].date.doy = 6
    /\ args.stream[2].date.doy = 28
    /\ Len(ret.trends) = 2
    /\ ret.trends[2].week = 2

\* the ISO 8601 week (Monday to Sunday) of a date of 2025, whose 1 January
\* is a Wednesday: week 1 ends on Sunday 5 January
IsoWeek(date) == [year |-> date.year, week |-> ((date.doy + 1) \div 7) + 1]

\* the checkpoint the i-th record is folded into: the last one after the fold
\* of the first i records
CheckpointOf(stream, tz, i) == Len(ComputeTrend(SubSeq(stream, 1, i), tz))

\* C14: for a stream in ascending date order, two records are folded into the
\* same checkpoint exactly when their effective dates lie in the same ISO
\* calendar week, so that there is one checkpoint per distinct ISO week.
C14_OneCheckpointPerIsoWeek ==
    (TrendReturned /\ Ascending(args.stream)) =>
        /\ \A i, j \in 1..Len(args.stream) :
               (IsoWeek(args.stream[i].date) = IsoWeek(args.stream[j].date))
                   <=> (CheckpointOf(args.stream, args.tz, i)
                            = CheckpointOf(args.stream, args.tz, j))
        /\ Len(ret.trends)
               = Cardinality({IsoWeek(args.stream[i].date) : i \in 1..Len(args.stream)})

\* ---- claims about the stream the fold is given, checked under Spec

\* C15: in every reachable state the rows fetchTrendData reads for a student,
\* in the order the query returns them, are in non-decreasing order of
\* effective date, also after an earlier-dated session was marked after a
\* later-dated one.
C15_StreamAscending ==
    \A student \in Students : Ascending(TrendRows(student))

\* ---- the three-record scenario, checked under SpecTrend

\* (present, 2025-01-06), (absent, 2025-01-08), (present, 2025-01-13)
ScenarioStream ==
    << [status |-> "present", date |-> [year |-> SessionYear, doy |-> 6]],
       [status |-> "absent",  date |-> [year |-> SessionYear, doy |-> 8]],
       [status |-> "present", date |-> [year |-> SessionYear, doy |-> 13]] >>

\* C16: the stream (present, 2025-01-06), (absent, 2025-01-08), (present,
\* 2025-01-13) returns exactly two checkpoints: Week 1 at 1/2 = 50.00 percent
\* from the first two records, and Week 2 at 2/3 = 66.67 percent.
C16_ScenarioTwoCheckpoints ==
    (TrendReturned /\ args.stream = ScenarioStream) =>
        /\ Len(ret.trends) = 2
        /\ ret.trends[1].week = 1
        /\ PercentAsFraction(ret.trends[1].pct) = PctScale \div 2
        /\ ret.trends[2].week = 2
        /\ PercentAsFraction(ret.trends[2].pct) = ROUND(2 * PctScale, 3)

\* ---- claims about errors, checked under SpecCalc

\* C17: no call with non-negative counts raises an error; stated here for the
\* calls whose present_count does not exceed held_count, which the claim
\* includes.
C17_NoErrorRaised ==
    (args.p <= args.h) => ret.status # "error"

\* ---- claims about the function's reads, checked under SpecRpc

CurrentSemesters ==
    {i \in Rows(academic_semesters) : academic_semesters[i].is_current}

\* the first call returned a result computed with threshold th
UsedThreshold(th) ==
    LET p == PresentCount(args.student, args.subject)
        h == HeldCount(args.subject)
    IN  /\ ret[1].status = "ok"
        /\ ret[1].buffer_classes = ExpectedBuffer(p, h, subjects[args.subject], th)
        /\ ret[1].is_safe = (h = 0 \/ ThresholdScale * p >= th * h)

\* C18: with no semester marked current the call returns a normal result
\* computed with threshold 0.75; with one semester marked current the result
\* is computed with that semester's attendance_threshold.
C18_ThresholdFallback ==
    (Len(ret) >= 1 /\ args.subject \in DOMAIN subjects) =>
        /\ CurrentSemesters = {} => UsedThreshold(DefaultThreshold)
        /\ \A i \in CurrentSemesters :
               CurrentSemesters = {i}
                   => UsedThreshold(academic_semesters[i].attendance_threshold)

C18_WitnessNoCurrent ==
    /\ Len(ret) >= 1
    /\ args.subject = "sub1"
    /\ Len(academic_semesters) = 1
    /\ CurrentSemesters = {}
    /\ academic_semesters[1].attendance_threshold = 0
    /\ PresentCount(args.student, args.subject) = 1
    /\ ret[1].buffer_classes = 0

\* C19: a call whose subject id matches no subject reports total_planned = 0
\* and every other field as for a subject with total_classes_planned = 0.
C19_MissingSubjectPlansZero ==
    (Len(ret) >= 1 /\ args.subject \notin DOMAIN subjects) =>
        /\ ret[1].total_planned = 0
        /\ ret[1] \in {ComputeBuffer(PresentCount(args.student, args.subject),
                                     HeldCount(args.subject), 0, th) :
                          th \in V_threshold}

\* C20: a call changes no table, and the second of two calls for the same
\* student and subject with no write in between returns what the first
\* returned, whatever rows academic_semesters holds.
C20_CallsRepeatable ==
    [][/\ dbVars' = dbVars
       /\ Len(ret') = 2 => ret'[1] = ret'[2]]_vars

\* ---- further claims about the calculator, checked under SpecCalc

\* C21: every call that returns with total_planned = 0 has no class left and
\* none required, and so reports buffer_classes = present_count, for every
\* present_count, held_count and threshold.
C21_NoPlanBufferIsPresent ==
    (Returned /\ args.tp = 0) =>
        /\ Remaining(args.h, args.tp) = 0
        /\ RequiredTotal(args.tp, args.th) = 0
        /\ ret.buffer_classes = args.p

C21_Witness ==
    /\ Returned
    /\ args.tp = 0
    /\ args.p > 0
    /\ args.h > args.p
    /\ args.th > 0
    /\ ret.buffer_classes = args.p

\* ---- claims about the counting rules, checked under SpecRpc

\* a record counts as attended exactly when it is present or on_duty
Attended(status) == status \in {"present", "on_duty"}

\* the student's rows of the subject that count as attended
AttendedRows(student, subject) ==
    {i \in Rows(attendance_records) :
        /\ attendance_records[i].student_id = student
        /\ class_sessions[attendance_records[i].class_session_id].subject_id = subject
        /\ Attended(attendance_records[i].status)}

\* C22: the present_count a call reports is the number of the student's
\* present and on_duty records of the subject, and the last checkpoint of the
\* trend is the share of present and on_duty records among all of the
\* student's records: absent and medical count in neither.
C22_SameClassification ==
    (Len(ret) >= 1 /\ args.subject \in DOMAIN subjects) =>
        /\ ret[1].status = "ok"
        /\ ret[1].present_count
               = Cardinality(AttendedRows(args.student, args.subject))
        /\ \A tz \in TimeZones :
               LET stream   == TrendRows(args.student)
                   trends   == fetchTrendData(args.student, tz)
                   attended == {k \in 1..Len(stream) : Attended(stream[k].status)}
               IN  stream # <<>> =>
                       PercentAsFraction(trends[Len(trends)].pct)
                           = ROUND(PctScale * Cardinality(attended), Len(stream))

C22_Witness ==
    /\ Len(ret) >= 1
    /\ args.subject = "sub1"
    /\ Len(attendance_records) = 2
    /\ attendance_records[1].status = "medical"
    /\ attendance_records[2].status = "on_duty"
    /\ ret[1].present_count = 0
    /\ PercentAsFraction(fetchTrendData(args.student, "utc")[1].pct) = PctScale \div 2

\* ---- claims about held_count, checked under SpecTimetable

RECURSIVE CountHeld(_, _)
\* among the first n sessions, those of the subject that are not cancelled
\* and dated today or earlier
CountHeld(subject, n) ==
    IF n = 0 THEN 0
    ELSE CountHeld(subject, n - 1)
         + (IF /\ class_sessions[n].subject_id = subject
               /\ ~class_sessions[n].is_cancelled
               /\ ~(class_sessions[n].scheduled_date > today)
            THEN 1 ELSE 0)

\* C23: in every state and for every subject, the held_count a call reports
\* is the number of the subject's sessions that are not cancelled and dated
\* today or earlier: future sessions, cancelled sessions and sessions of other
\* subjects do not count.
C23_HeldCountDefinition ==
    \A student \in Students, subject \in Subjects :
        \A r \in calculate_attendance_buffer(student, subject) :
            /\ r.status = "ok"
            /\ r.held_count = CountHeld(subject, Len(class_sessions))

C23_Witness ==
    /\ today = 1
    /\ Len(class_sessions) = 2
    /\ class_sessions[1].subject_id = "sub1"
    /\ class_sessions[1].scheduled_date = 2
    /\ ~class_sessions[1].is_cancelled
    /\ class_sessions[2].subject_id = "sub1"
    /\ class_sessions[2].scheduled_date = 1
    /\ class_sessions[2].is_cancelled
    /\ \A r \in calculate_attendance_buffer("s1", "sub1") : r.held_count = 0

\* ---- claims about the checkpoints' values, checked under SpecTrend

\* record k is the last one folded into its checkpoint
LastOfCheckpoint(stream, tz, k) ==
    k = Len(stream) \/ CheckpointOf(stream, tz, k + 1) # CheckpointOf(stream, tz, k)

\* the present and on_duty records among the first k
RunningPresent(stream, k) ==
    Cardinality({l \in 1..k : stream[l].status \in {"present", "on_duty"}})

C25_LatestCumulativeValue ==
    TrendReturned =>
        /\ \A k, l \in 1..Len(args.stream) :
               WeekKey(args.stream[k].date, args.tz) = WeekKey(args.stream[l].date, args.tz)
                   => CheckpointOf(args.stream, args.tz, k)
                          = CheckpointOf(args.stream, args.tz, l)
        /\ \A k \in 1..Len(args.stream) :
               LastOfCheckpoint(args.stream, args.tz, k) =>
                   PercentAsFraction(ret.trends[CheckpointOf(args.stream, args.tz, k)].pct)
                       = ROUND(PctScale * RunningPresent(args.stream, k), k)
        /\ \A i \in 1..Len(ret.trends) :
               ret.trends[i].projected = ret.trends[i].pct

\* ---- claims about is_safe, checked under SpecSafe

\* C26: for every call that returns with held_count > 0, is_safe is true
\* exactly when present_count / held_count >= threshold as exact rationals.
C26_SafeOnExactRatio ==
    (Returned /\ args.h > 0) =>
        (ret.is_safe <=> ThresholdScale * args.p >= args.th * args.h)

\* ---- claims about the size of the results, checked under SpecCalc

\* C27: every call that returns with total_planned > 0 reports a
\* buffer_classes of at most the classes still to be held, max(total_planned -
\* held_count, 0); stated here for the calls whose present_count does not
\* exceed held_count.
C27_BufferAtMostRemaining ==
    (Returned /\ args.tp > 0 /\ args.p <= args.h) =>
        ret.buffer_classes <= ClassesLeft(args.h, args.tp)

\* C28: every call that returns with present_count <= held_count reports
\* current_pct and projected_pct between 0 and 1, also when held_count exceeds
\* total_planned.
C28_PctsWithinUnit ==
    (Returned /\ args.p <= args.h) =>
        /\ ret.current_pct >= 0
        /\ ret.current_pct <= PctScale
        /\ ret.projected_pct >= 0
        /\ ret.projected_pct <= PctScale

\* ---- claims about on-duty requests, checked under SpecWrites

\* C29: in every state, every approved request whose approval is not still
\* under way has an attendance row of its student and session with status
\* on_duty.
C29_ApprovedHasOnDutyRow ==
    \A q \in Rows(on_duty_requests) :
        (on_duty_requests[q].status = "approved" /\ q \notin od_inflight) =>
            \E i \in Rows(attendance_records) :
                /\ attendance_records[i].student_id = on_duty_requests[q].student_id
                /\ attendance_records[i].class_session_id
                       = on_duty_requests[q].class_session_id
                /\ attendance_records[i].status = "on_duty"

\* ---- claims about check-in, checked under SpecCheckIn

\* C30: in every state on_duty_requests holds at most one row per student,
\* event registration and class session.
C30_OneRequestPerSession ==
    \A q1, q2 \in Rows(on_duty_requests) :
        (/\ on_duty_requests[q1].student_id = on_duty_requests[q2].student_id
         /\ on_duty_requests[q1].event_registration_id
                = on_duty_requests[q2].event_registration_id
         /\ on_duty_requests[q1].class_session_id
                = on_duty_requests[q2].class_session_id)
            => q1 = q2

====
